---- MODULE Spec2Model ----
(***************************************************************************)
(* Double-array trie dictionary of OpenCC                                  *)
(* (src/dictionary/opencc_dictionary_datrie.c).                            *)
(*                                                                         *)
(* Two specifications share the module:                                    *)
(*   SpecMatch  the trie walks (datrie_match, dict_datrie_match_longest,   *)
(*              dict_datrie_get_all_match_lengths), one loop iteration per *)
(*              step, over every table and input within the bounds;        *)
(*   Spec       the life cycle of handles (dict_datrie_open,               *)
(*              dict_datrie_close and queries on loaded handles) with the  *)
(*              resources it acquires: handle storage, memory regions and  *)
(*              file streams.                                              *)
(*                                                                         *)
(* Memory is modelled in cells: one cell per char of the header, per       *)
(* size_t field, per wchar_t of the lexicon and per int field of a trie    *)
(* item, so that sizeof(char) = sizeof(size_t) = sizeof(wchar_t) = 1 cell  *)
(* and sizeof(DoubleArrayTrieItem) = 3 cells.                              *)
(***************************************************************************)
EXTENDS Integers, Sequences, FiniteSets, TLC

(***************************************************************************)
(* Bounds of the model.                                                    *)
(***************************************************************************)
\* items of an enumerated trie table
MaxItems == 2
\* characters of an enumerated input word
MaxLen == 3
\* handle storages (and so memory regions) that can exist at once
MaxHandles == 2
\* file streams that can be open at once (the descriptor limit)
MaxStreams == 2

(***************************************************************************)
(* Constants of the program.                                               *)
(***************************************************************************)
\* base of a node without outgoing transitions (opencc_dictionary_datrie.h)
DATRIE_UNUSED == -1
\* the word field of a node that ends no lexicon entry: the literal -1 of
\* lines 201, 204 and 226
NO_ENTRY == -1

\* the two memory strategies, lines 24-28
MEMORY_TYPE_MMAP == "MEMORY_TYPE_MMAP"
MEMORY_TYPE_ALLOCATE == "MEMORY_TYPE_ALLOCATE"

\* a null pointer, and the pointer lexicon + off returned by line 207
NULL == [null |-> TRUE, off |-> 0]
LexiconPtr(off) == [null |-> FALSE, off |-> off]

(***************************************************************************)
(* The trie walk, lines 169-231.  A table dd is a record                   *)
(* [dat, dat_item_count]; dat maps the node index to [base, parent, word]. *)
(* A word w is the sequence of its character codes (all non-zero); the     *)
(* terminating 0 is what CharAt returns at and past the end.               *)
(***************************************************************************)
\* word[p] for the 0-based position p
CharAt(w, p) == IF p < Len(w) THEN w[p + 1] ELSE 0

\* line 169-172: the cast of a wchar_t to int keeps the code
encode_char(ch) == ch

\* the loop condition of datrie_match, lines 178-179
datrie_match_cond(dd, w, limit, i, p) ==
    /\ CharAt(w, p) # 0
    /\ (limit = 0 \/ p < limit)
    /\ dd.dat[i].base # DATRIE_UNUSED

\* lines 181-182 and 220-221: k = encode_char(word[p]); j = base + k
datrie_candidate(dd, w, i, p) == dd.dat[i].base + encode_char(CharAt(w, p))

\* lines 183 and 222: the condition of the break
datrie_reject_no_parent(dd, i, j) ==
    IF j < 0 THEN TRUE
    ELSE j >= dd.dat_item_count

datrie_reject_parent_of_i(dd, i, j) ==
    IF j < 0 THEN TRUE
    ELSE IF j >= dd.dat_item_count THEN TRUE
    ELSE dd.dat[i].parent # i

datrie_reject(dd, i, j) ==
    IF j < 0 THEN TRUE
    ELSE IF j >= dd.dat_item_count THEN TRUE
    ELSE dd.dat[j].parent # i

\* the loop condition of dict_datrie_get_all_match_lengths, line 218
all_match_cond_no_unused(dd, w, i, p) == CharAt(w, p) # 0

all_match_cond(dd, w, i, p) ==
    /\ CharAt(w, p) # 0
    /\ dd.dat[i].base # DATRIE_UNUSED

\* the condition of the backtracking loop of dict_datrie_match_longest, line 201
match_longest_cond_to_zero(dd, pos, item) == dd.dat[item].word = -1 /\ pos > 0

match_longest_cond(dd, pos, item) == dd.dat[item].word = -1 /\ pos > 1

\* lines 204-207: the value dict_datrie_match_longest returns
match_longest_result_no_pos(dd, pos, item) ==
    IF dd.dat[item].word = -1
    THEN NULL
    ELSE LexiconPtr(dd.dat[item].word)

match_longest_result(dd, pos, item) ==
    IF pos = 0 \/ dd.dat[item].word = -1
    THEN NULL
    ELSE LexiconPtr(dd.dat[item].word)

\* datrie_match as a function: the loop of lines 178-186 from (i, p)
RECURSIVE datrie_walk(_, _, _, _, _)
datrie_walk(dd, w, limit, i, p) ==
    IF datrie_match_cond(dd, w, limit, i, p)
    THEN LET j == datrie_candidate(dd, w, i, p)
         IN  IF datrie_reject(dd, i, j)
             THEN [pos |-> p, id |-> i]
             ELSE datrie_walk(dd, w, limit, j, p + 1)
    ELSE [pos |-> p, id |-> i]

\* lines 174-191: i = 0, p = 0, and the outputs *match_pos and *id
datrie_match(dd, w, limit) == datrie_walk(dd, w, limit, 0, 0)

\* the while loop of lines 201-202
RECURSIVE match_longest_loop(_, _, _)
match_longest_loop(dd, w, r) ==
    IF match_longest_cond(dd, r.pos, r.id)
    THEN match_longest_loop(dd, w, datrie_match(dd, w, r.pos - 1))
    ELSE r

\* lines 193-208
dict_datrie_match_longest(dd, w, length) ==
    LET r == match_longest_loop(dd, w, datrie_match(dd, w, length))
    IN  match_longest_result(dd, r.pos, r.id)

\* the loop of lines 218-228 from (i, p) with the lengths written so far
RECURSIVE all_match_walk(_, _, _, _, _)
all_match_walk(dd, w, i, p, out) ==
    IF all_match_cond(dd, w, i, p)
    THEN LET j == datrie_candidate(dd, w, i, p)
         IN  IF datrie_reject(dd, i, j)
             THEN out
             ELSE all_match_walk(dd, w, j, p + 1,
                      IF dd.dat[j].word # -1 THEN Append(out, p + 1) ELSE out)
    ELSE out

\* lines 210-231: the lengths written to match_length; rscnt is their number
dict_datrie_get_all_match_lengths(dd, w) == all_match_walk(dd, w, 0, 0, <<>>)

(***************************************************************************)
(* Tables and inputs of SpecMatch.                                         *)
(***************************************************************************)
Chars == {1, 2}
Words == UNION {[1..n -> Chars] : n \in 0..MaxLen}
\* the length arguments tried: unbounded, and one and two characters
Limits == {0, 1, 2}

\* bases that send a character below 0, onto a node of the table, or past it
Bases == {0 - 2, DATRIE_UNUSED, 0, 1}
\* the values tried for items[0].parent: no node (-1) and every node
RootParents == (0 - 1)..(MaxItems - 1)
Items(n) ==
    [base : Bases,
     parent : IF n = 0 THEN RootParents ELSE 0..(MaxItems - 1),
     word : {NO_ENTRY, n}]
RECURSIVE Dats(_)
Dats(n) ==
    IF n = 0
    THEN {<<>>}
    ELSE {d @@ ((n - 1) :> it) : d \in Dats(n - 1), it \in Items(n - 1)}
Tables == {[dat |-> d, dat_item_count |-> MaxItems] : d \in Dats(MaxItems)}

TableOf(items) ==
    [dat |-> [n \in 0..(Len(items) - 1) |-> items[n + 1]],
     dat_item_count |-> Len(items)]

\* character codes of the examples
Ch == [A |-> 1, B |-> 2, C |-> 3, D |-> 4, X |-> 5]

\* the dictionary of the entries AB (lexicon offset 0) and ABC (offset 3):
\* nodes root, A, AB, ABC
ExampleLexicon == <<Ch.A, Ch.B, 0, Ch.A, Ch.B, Ch.C, 0>>
ExampleItems ==
    <<[base |-> 0, parent |-> 0 - 1, word |-> NO_ENTRY],
      [base |-> 0, parent |-> 0, word |-> NO_ENTRY],
      [base |-> 0, parent |-> 1, word |-> 0],
      [base |-> DATRIE_UNUSED, parent |-> 2, word |-> 3]>>
ExampleTable == TableOf(ExampleItems)
\* the dictionary of the entries A (offset 0) and ABCD (offset 2):
\* nodes root, A, AB, ABC, ABCD
DeepLexicon == <<Ch.A, 0, Ch.A, Ch.B, Ch.C, Ch.D, 0>>
DeepItems ==
    <<[base |-> 0, parent |-> 0 - 1, word |-> NO_ENTRY],
      [base |-> 0, parent |-> 0, word |-> 0],
      [base |-> 0, parent |-> 1, word |-> NO_ENTRY],
      [base |-> 0, parent |-> 2, word |-> NO_ENTRY],
      [base |-> DATRIE_UNUSED, parent |-> 3, word |-> 2]>>
DeepTable == TableOf(DeepItems)
ExampleWords ==
    {<<Ch.A, Ch.B, Ch.C, Ch.D>>, <<Ch.A, Ch.B, Ch.X>>, <<Ch.A, Ch.B, Ch.C>>,
     <<Ch.A, Ch.B>>, <<Ch.A>>, <<Ch.X>>}

\* the characters of the lexicon entry a pointer lexicon + off denotes: up to
\* the terminating 0
RECURSIVE LexiconEntry(_, _)
LexiconEntry(lexicon, off) ==
    IF off + 1 > Len(lexicon) \/ lexicon[off + 1] = 0
    THEN <<>>
    ELSE <<lexicon[off + 1]>> \o LexiconEntry(lexicon, off + 1)

VARIABLES
    \* ---- the walk in progress (SpecMatch) ----
    tab,            \* the table walked: [dat, dat_item_count]
    word,           \* the input word
    length,         \* the length argument of dict_datrie_match_longest
    op,             \* "longest" or "all": the function called
    pc,             \* position in the function
    i, p, limit,    \* locals and argument of the running loop
    pos, item,      \* the outputs of datrie_match
    calls,          \* history: calls of datrie_match made by this call
    firstpos,       \* history: pos after the first call of datrie_match
    last,           \* history: the last loop iteration [i, p, j, taken]
    zero,           \* history: some iteration of this call computed j = 0
    rscnt,          \* count of lengths written
    match_length,   \* the caller's output buffer, as the lengths written
    ret,            \* the value returned
    \* ---- the process (Spec) ----
    handles,        \* the datrie_dictionary storages
    regions,        \* the memory regions (mappings and heap buffers)
    streams,        \* the number of FILE streams that are open
    abnormal,       \* "none", or the undefined behaviour the process ran into
    call            \* history: the last call of the interface

minput == <<tab, word, length, op>>
mvars == <<tab, word, length, op, pc, i, p, limit, pos, item, calls,
           firstpos, last, zero, rscnt, match_length, ret>>
lvars == <<handles, regions, streams, abnormal, call>>
vars == <<mvars, lvars>>

(***************************************************************************)
(* SpecMatch: the walks, one loop iteration per step.                      *)
(***************************************************************************)
NoIter == [i |-> 0, p |-> 0, j |-> 0, taken |-> FALSE, any |-> FALSE]
Iter(ii, pp, jj, t) == [i |-> ii, p |-> pp, j |-> jj, taken |-> t, any |-> TRUE]

\* line 199: the first call of datrie_match, with limit = length
MatchLongestCall ==
    /\ pc = "start" /\ op = "longest"
    /\ i' = 0 /\ p' = 0 /\ limit' = length
    /\ calls' = 1
    /\ last' = NoIter
    /\ pc' = "dm"
    /\ UNCHANGED <<minput, pos, item, firstpos, zero, rscnt, match_length, ret>>
    /\ UNCHANGED lvars

\* lines 178-186: an iteration that follows the transition
DatrieMatchAdvance ==
    /\ pc = "dm"
    /\ datrie_match_cond(tab, word, limit, i, p)
    /\ LET j == datrie_candidate(tab, word, i, p)
       IN  /\ ~datrie_reject(tab, i, j)
           /\ i' = j
           /\ p' = p + 1
           /\ last' = Iter(i, p, j, TRUE)
           /\ zero' = (zero \/ j = 0)
    /\ UNCHANGED <<minput, pc, limit, pos, item, calls, firstpos, rscnt,
                   match_length, ret>>
    /\ UNCHANGED lvars

\* lines 183-184 and 187-190: the break, and the outputs written
DatrieMatchBreak ==
    /\ pc = "dm"
    /\ datrie_match_cond(tab, word, limit, i, p)
    /\ LET j == datrie_candidate(tab, word, i, p)
       IN  /\ datrie_reject(tab, i, j)
           /\ last' = Iter(i, p, j, FALSE)
           /\ zero' = (zero \/ j = 0)
    /\ pos' = p /\ item' = i
    /\ firstpos' = IF calls = 1 THEN p ELSE firstpos
    /\ pc' = "ml"
    /\ UNCHANGED <<minput, i, p, limit, calls, rscnt, match_length, ret>>
    /\ UNCHANGED lvars

\* lines 178-179 false, and 187-190: the loop ends, the outputs are written
DatrieMatchEnd ==
    /\ pc = "dm"
    /\ ~datrie_match_cond(tab, word, limit, i, p)
    /\ pos' = p /\ item' = i
    /\ firstpos' = IF calls = 1 THEN p ELSE firstpos
    /\ pc' = "ml"
    /\ UNCHANGED <<minput, i, p, limit, calls, last, zero, rscnt,
                   match_length, ret>>
    /\ UNCHANGED lvars

\* lines 201-202: one more call of datrie_match, with limit = pos - 1
MatchLongestRetry ==
    /\ pc = "ml"
    /\ match_longest_cond(tab, pos, item)
    /\ i' = 0 /\ p' = 0 /\ limit' = pos - 1
    /\ calls' = calls + 1
    /\ last' = NoIter
    /\ pc' = "dm"
    /\ UNCHANGED <<minput, pos, item, firstpos, zero, rscnt, match_length, ret>>
    /\ UNCHANGED lvars

\* lines 204-207
MatchLongestReturn ==
    /\ pc = "ml"
    /\ ~match_longest_cond(tab, pos, item)
    /\ ret' = match_longest_result(tab, pos, item)
    /\ pc' = "done"
    /\ UNCHANGED <<minput, i, p, limit, pos, item, calls, firstpos, last,
                   zero, rscnt, match_length>>
    /\ UNCHANGED lvars

\* lines 215-218: rscnt = 0, i = 0, p = 0
AllMatchCall ==
    /\ pc = "start" /\ op = "all"
    /\ i' = 0 /\ p' = 0
    /\ rscnt' = 0 /\ match_length' = <<>>
    /\ last' = NoIter
    /\ pc' = "am"
    /\ UNCHANGED <<minput, limit, pos, item, calls, firstpos, zero, ret>>
    /\ UNCHANGED lvars

\* lines 218-228: an iteration that follows the transition
AllMatchAdvance ==
    /\ pc = "am"
    /\ all_match_cond(tab, word, i, p)
    /\ LET j == datrie_candidate(tab, word, i, p)
       IN  /\ ~datrie_reject(tab, i, j)
           /\ i' = j
           /\ p' = p + 1
           /\ last' = Iter(i, p, j, TRUE)
           /\ zero' = (zero \/ j = 0)
           /\ IF tab.dat[j].word # -1
              THEN /\ match_length' = Append(match_length, p + 1)
                   /\ rscnt' = rscnt + 1
              ELSE UNCHANGED <<match_length, rscnt>>
    /\ UNCHANGED <<minput, pc, limit, pos, item, calls, firstpos, ret>>
    /\ UNCHANGED lvars

\* lines 222-223 and 230: the break, and the count returned
AllMatchBreak ==
    /\ pc = "am"
    /\ all_match_cond(tab, word, i, p)
    /\ LET j == datrie_candidate(tab, word, i, p)
       IN  /\ datrie_reject(tab, i, j)
           /\ last' = Iter(i, p, j, FALSE)
           /\ zero' = (zero \/ j = 0)
    /\ ret' = rscnt
    /\ pc' = "done"
    /\ UNCHANGED <<minput, i, p, limit, pos, item, calls, firstpos, rscnt,
                   match_length>>
    /\ UNCHANGED lvars

\* line 218 false, and 230: the loop ends, the count is returned
AllMatchEnd ==
    /\ pc = "am"
    /\ ~all_match_cond(tab, word, i, p)
    /\ ret' = rscnt
    /\ pc' = "done"
    /\ UNCHANGED <<minput, i, p, limit, pos, item, calls, firstpos, last,
                   zero, rscnt, match_length>>
    /\ UNCHANGED lvars

MNext ==
    \/ MatchLongestCall
    \/ DatrieMatchAdvance
    \/ DatrieMatchBreak
    \/ DatrieMatchEnd
    \/ MatchLongestRetry
    \/ MatchLongestReturn
    \/ AllMatchCall
    \/ AllMatchAdvance
    \/ AllMatchBreak
    \/ AllMatchEnd

(***************************************************************************)
(* Files, memory and streams of Spec.                                      *)
(***************************************************************************)
\* the failure indicator: (dict_ptr) -1 of line 147, and the -1 of the
\* static functions
FAILURE == 0 - 1

\* "OPENCCDATRIE", the magic header, as character codes
OPENCC_DICHEADER == <<79, 80, 69, 78, 67, 67, 68, 65, 84, 82, 73, 69>>
\* the same header with its first character damaged
CorruptHeader == <<88>> \o Tail(OPENCC_DICHEADER)

RECURSIVE ItemCells(_)
ItemCells(items) ==
    IF items = <<>>
    THEN <<>>
    ELSE <<Head(items).base, Head(items).parent, Head(items).word>>
             \o ItemCells(Tail(items))

\* the layout of a dictionary file: header, lexicon length, item count,
\* lexicon, items
FileImage(header, lexicon, items) ==
    header \o <<Len(lexicon), Len(items)>> \o lexicon \o ItemCells(items)

\* the files that exist; every other path names no file
Files ==
    ("dict.ocd" :> FileImage(OPENCC_DICHEADER, ExampleLexicon, ExampleItems))
    @@ ("deep.ocd" :> FileImage(OPENCC_DICHEADER, DeepLexicon, DeepItems))
    @@ ("bad.ocd" :> FileImage(CorruptHeader, ExampleLexicon, ExampleItems))
Paths == DOMAIN Files \cup {"none.ocd"}

\* the content of memory that was never written
Indeterminate == 0 - 999

HandleIds == 1..MaxHandles
RegionIds == 1..MaxHandles

\* a pointer into region r (0: the null pointer) at cell off
Pointer(r, off) == [r |-> r, off |-> off]
NullPointer == Pointer(0, 0)

NoRegion == [kind |-> "none", held |-> FALSE, releasedBy |-> "none", cells |-> <<>>]
NoHandle ==
    [alloc |-> "none", frees |-> 0,
     dat |-> NullPointer, dat_item_count |-> Indeterminate,
     lexicon |-> NullPointer, lexicon_length |-> Indeterminate,
     dic_memory |-> Indeterminate, dic_size |-> Indeterminate,
     dic_memory_type |-> "indeterminate",
     path |-> "", fp_open |-> FALSE]

\* lines 138-140: malloc of the storage, dat = NULL, lexicon = NULL; every
\* other field is left as malloc returned it.  path and fp_open are history:
\* the file this open names, and whether the stream it opened is still open
NewHandle(path) == [NoHandle EXCEPT !.alloc = "live", !.path = path]

\* the cell of region rg at offset off: past the end of a mapping the page
\* reads 0, past the end of a heap buffer the content is indeterminate
CellAt(rg, off) ==
    IF off >= 0 /\ off < Len(rg.cells) THEN rg.cells[off + 1]
    ELSE IF rg.kind = "mmap" /\ off >= 0 THEN 0
    ELSE Indeterminate

Min(a, b) == IF a < b THEN a ELSE b

\* read(fd, buf, count) on a regular file at offset off: the bytes of the
\* file from off, at most count
fd_read(file, off, count) == SubSeq(file, off + 1, Min(Len(file), off + count))

\* a buffer of size cells as malloc returns it, with data copied to its start
BufferWith(size, data) ==
    [n \in 1..size |-> IF n <= Len(data) THEN data[n] ELSE Indeterminate]

\* lines 43-55.  r is the region malloc would return (0: none left), ok
\* whether malloc succeeds, fdpos the offset of fd on entry
load_allocate_short(dd, file, r, ok, fdpos) ==
    IF ok /\ r # 0
    THEN [ret |-> 0,
          dd |-> [dd EXCEPT !.dic_memory_type = MEMORY_TYPE_ALLOCATE,
                            !.dic_memory = r],
          region |-> [kind |-> "heap", held |-> TRUE, releasedBy |-> "none",
                      cells |-> BufferWith(dd.dic_size,
                                    fd_read(file, 0, dd.dic_size - 1))]]
    ELSE [ret |-> FAILURE,
          dd |-> [dd EXCEPT !.dic_memory_type = MEMORY_TYPE_ALLOCATE,
                            !.dic_memory = 0],
          region |-> NoRegion]

load_allocate(dd, file, r, ok, fdpos) ==
    IF ok /\ r # 0
    THEN LET seek == 0     \* line 52: lseek(fd, 0, SEEK_SET), whatever fdpos
         IN  [ret |-> 0,
              dd |-> [dd EXCEPT !.dic_memory_type = MEMORY_TYPE_ALLOCATE,
                                !.dic_memory = r],
              region |-> [kind |-> "heap", held |-> TRUE, releasedBy |-> "none",
                          cells |-> BufferWith(dd.dic_size,
                                        fd_read(file, seek, dd.dic_size))]]
    ELSE [ret |-> FAILURE,
          dd |-> [dd EXCEPT !.dic_memory_type = MEMORY_TYPE_ALLOCATE,
                            !.dic_memory = 0],
          region |-> NoRegion]

\* lines 57-68.  ok: whether the kernel grants the mapping; a mapping of
\* length 0 is never granted
load_mmap(dd, file, r, ok) ==
    IF ok /\ r # 0 /\ dd.dic_size > 0
    THEN [ret |-> 0,
          dd |-> [dd EXCEPT !.dic_memory_type = MEMORY_TYPE_MMAP,
                            !.dic_memory = r],
          region |-> [kind |-> "mmap", held |-> TRUE, releasedBy |-> "none",
                      cells |-> file]]
    ELSE [ret |-> FAILURE,
          dd |-> [dd EXCEPT !.dic_memory_type = MEMORY_TYPE_MMAP,
                            !.dic_memory = 0],
          region |-> NoRegion]

\* strncmp(region, header, n) from character k: "equal", "differ", or
\* "undefined" when the answer depends on indeterminate memory.  The header
\* holds no 0, so the comparison ends on the first difference or after n
RECURSIVE strncmp(_, _, _, _)
strncmp(rg, header, n, k) ==
    IF k >= n THEN "equal"
    ELSE IF CellAt(rg, k) = Indeterminate THEN "undefined"
    ELSE IF CellAt(rg, k) # header[k + 1] THEN "differ"
    ELSE strncmp(rg, header, n, k + 1)

\* lines 70-114.  ub: the function read indeterminate memory
load_dict(dd0, file, r, mmapOK, mallocOK) ==
    LET \* lines 74-75: fseek to the end, ftell
        fdpos == Len(file)
        dd1 == [dd0 EXCEPT !.dic_size = Len(file)]
        \* lines 78-84
        m == load_mmap(dd1, file, r, mmapOK)
        a == IF m.ret = FAILURE THEN load_allocate(m.dd, file, r, mallocOK, fdpos) ELSE m
        \* lines 86-92
        header_len == Len(OPENCC_DICHEADER)
        cmp == strncmp(a.region, OPENCC_DICHEADER, header_len, 0)
        \* lines 94-111
        lexicon_length == CellAt(a.region, header_len)
        dat_item_count == CellAt(a.region, header_len + 1)
        offset == header_len + 2
    IN  IF a.ret = FAILURE
        THEN [ret |-> FAILURE, dd |-> a.dd, region |-> a.region, ub |-> FALSE]
        ELSE IF cmp = "undefined"
        THEN [ret |-> FAILURE, dd |-> a.dd, region |-> a.region, ub |-> TRUE]
        ELSE IF cmp = "differ"
        THEN [ret |-> FAILURE, dd |-> a.dd, region |-> a.region, ub |-> FALSE]
        ELSE [ret |-> 0,
              dd |-> [a.dd EXCEPT
                        !.lexicon_length = lexicon_length,
                        !.dat_item_count = dat_item_count,
                        !.lexicon = Pointer(a.dd.dic_memory, offset),
                        !.dat = Pointer(a.dd.dic_memory, offset + lexicon_length)],
              region |-> a.region,
              ub |-> lexicon_length = Indeterminate \/ dat_item_count = Indeterminate]

\* munmap(addr, size): releases a live mapping; anything else is EINVAL
munmap(rgs, r) ==
    IF rgs[r].kind = "mmap" /\ rgs[r].held
    THEN [ret |-> 0, ub |-> FALSE,
          regions |-> [rgs EXCEPT ![r].held = FALSE, ![r].releasedBy = "munmap"]]
    ELSE [ret |-> FAILURE, ub |-> FALSE, regions |-> rgs]

\* free(ptr): releases a live heap buffer; anything else is undefined
free(rgs, r) ==
    IF rgs[r].kind = "heap" /\ rgs[r].held
    THEN [ret |-> 0, ub |-> FALSE,
          regions |-> [rgs EXCEPT ![r].held = FALSE, ![r].releasedBy = "free"]]
    ELSE [ret |-> 0, ub |-> TRUE, regions |-> rgs]

\* lines 116-134
unload_dict_swapped(dd, rgs) ==
    IF dd.dic_memory # 0
    THEN IF MEMORY_TYPE_ALLOCATE = dd.dic_memory_type
         THEN munmap(rgs, dd.dic_memory)
         ELSE IF MEMORY_TYPE_MMAP = dd.dic_memory_type
         THEN free(rgs, dd.dic_memory)
         ELSE [ret |-> FAILURE, ub |-> FALSE, regions |-> rgs]
    ELSE [ret |-> 0, ub |-> FALSE, regions |-> rgs]

unload_dict(dd, rgs) ==
    IF dd.dic_memory # 0
    THEN IF MEMORY_TYPE_MMAP = dd.dic_memory_type
         THEN munmap(rgs, dd.dic_memory)
         ELSE IF MEMORY_TYPE_ALLOCATE = dd.dic_memory_type
         THEN free(rgs, dd.dic_memory)
         ELSE [ret |-> FAILURE, ub |-> FALSE, regions |-> rgs]
    ELSE [ret |-> 0, ub |-> FALSE, regions |-> rgs]

\* free(dd), lines 161 and 165: freeing storage that is not live is undefined
free_handle(hs, h) ==
    [hs EXCEPT ![h].alloc = "freed", ![h].frees = hs[h].frees + 1]

\* lines 155-167
dict_datrie_close_leaky(hs, rgs, h) ==
    [ret |-> 0, ub |-> hs[h].alloc # "live", handles |-> free_handle(hs, h),
     regions |-> rgs]

dict_datrie_close(hs, rgs, h) ==
    LET u == unload_dict(hs[h], rgs)
    IN  [ret |-> IF u.ret = FAILURE THEN FAILURE ELSE 0,
         ub |-> u.ub \/ hs[h].alloc # "live",
         handles |-> free_handle(hs, h),
         regions |-> u.regions]

\* the trie-item view of a handle: dat_item_count items of 3 cells from dat
ViewTable(dd, rgs) ==
    [dat |-> [n \in 0..(dd.dat_item_count - 1) |->
                [base |-> CellAt(rgs[dd.dat.r], dd.dat.off + 3 * n),
                 parent |-> CellAt(rgs[dd.dat.r], dd.dat.off + 3 * n + 1),
                 word |-> CellAt(rgs[dd.dat.r], dd.dat.off + 3 * n + 2)]],
     dat_item_count |-> dd.dat_item_count]

\* the lexicon view of a handle: lexicon_length cells from lexicon
ViewLexicon(dd, rgs) ==
    [n \in 1..dd.lexicon_length |-> CellAt(rgs[dd.lexicon.r], dd.lexicon.off + n - 1)]

LiveHandles == {h \in HandleIds : handles[h].alloc = "live"}
FreeHandleIds == {h \in HandleIds : handles[h].alloc # "live"}
FreeRegionIds == {r \in RegionIds : ~regions[r].held}
Lowest(S) == IF S = {} THEN 0 ELSE CHOOSE x \in S : \A y \in S : x <= y

\* The records of storage that was freed and of regions that were released
\* are history of the call that did it: the next call starts without them
KeptHandles == [h \in HandleIds |-> IF handles[h].alloc = "live" THEN handles[h] ELSE NoHandle]
KeptRegions == [r \in RegionIds |-> IF regions[r].held THEN regions[r] ELSE NoRegion]

NoCall ==
    [fn |-> "none", path |-> "", h |-> 0, fp |-> "none", region |-> 0,
     returned |-> TRUE, ret |-> 0, ptr |-> NULL, lengths |-> <<>>,
     word |-> <<>>, length |-> 0, streams_before |-> 0]

(***************************************************************************)
(* Spec: the calls of the interface, each as one step.                     *)
(***************************************************************************)
\* lines 136-153.  ddOK: malloc of the storage succeeds; mmapOK, mallocOK:
\* the mapping and the fallback allocation succeed
dict_datrie_open(path, ddOK, mmapOK, mallocOK) ==
    LET h == Lowest(FreeHandleIds)
        \* the region the load acquires is named after the handle when that
        \* name is free
        r == IF h \in FreeRegionIds THEN h ELSE Lowest(FreeRegionIds)
        \* line 142: fopen fails on a missing file and at the descriptor limit
        opened == path \in DOMAIN Files /\ streams < MaxStreams
        c0 == [NoCall EXCEPT !.fn = "open", !.path = path, !.h = h,
                             !.streams_before = streams]
    IN  /\ abnormal = "none"
        /\ h # 0
        /\ IF ~ddOK
           THEN \* line 139 writes through the null pointer malloc returned
                /\ abnormal' = "null handle storage written"
                /\ call' = [c0 EXCEPT !.returned = FALSE, !.h = 0]
                /\ handles' = KeptHandles
                /\ regions' = KeptRegions
                /\ UNCHANGED streams
           ELSE IF ~opened
           THEN \* line 72: fileno(fp) with fp = NULL
                /\ abnormal' = "absent file stream used"
                /\ call' = [c0 EXCEPT !.returned = FALSE, !.fp = "null"]
                /\ handles' = [KeptHandles EXCEPT ![h] = NewHandle(path)]
                /\ regions' = KeptRegions
                /\ UNCHANGED streams
           ELSE LET L == load_dict([NewHandle(path) EXCEPT !.fp_open = TRUE],
                                   Files[path], r, mmapOK, mallocOK)
                    hs == [KeptHandles EXCEPT ![h] = L.dd]
                    rgs == IF L.dd.dic_memory # 0
                           THEN [KeptRegions EXCEPT ![L.dd.dic_memory] = L.region]
                           ELSE KeptRegions
                    C == dict_datrie_close(hs, rgs, h)
                    c1 == [c0 EXCEPT !.fp = "stream", !.region = L.dd.dic_memory]
                IN  IF L.ub
                    THEN /\ abnormal' = "indeterminate memory read"
                         /\ call' = [c1 EXCEPT !.returned = FALSE]
                         /\ handles' = hs
                         /\ regions' = rgs
                         /\ streams' = streams + 1
                    ELSE IF L.ret = FAILURE
                    THEN \* lines 146-147: close the handle, return -1
                         /\ abnormal' = IF C.ub THEN "invalid free" ELSE "none"
                         /\ call' = [c1 EXCEPT !.ret = FAILURE]
                         /\ handles' = C.handles
                         /\ regions' = C.regions
                         /\ streams' = streams + 1
                    ELSE \* lines 150-152: fclose(fp), return dd
                         /\ abnormal' = "none"
                         /\ call' = [c1 EXCEPT !.ret = h]
                         /\ handles' = [hs EXCEPT ![h].fp_open = FALSE]
                         /\ regions' = rgs
                         /\ streams' = streams

Open ==
    /\ \E path \in Paths, ddOK \in BOOLEAN, mmapOK \in BOOLEAN, mallocOK \in BOOLEAN :
          dict_datrie_open(path, ddOK, mmapOK, mallocOK)
    /\ UNCHANGED mvars

\* dict_datrie_close on a handle that dict_datrie_open returned
Close ==
    /\ abnormal = "none"
    /\ \E h \in LiveHandles :
          LET C == dict_datrie_close(KeptHandles, KeptRegions, h)
          IN  /\ abnormal' = IF C.ub THEN "invalid free" ELSE "none"
              /\ handles' = C.handles
              /\ regions' = C.regions
              /\ call' = [NoCall EXCEPT !.fn = "close", !.h = h,
                            !.path = handles[h].path,
                            !.region = handles[h].dic_memory,
                            !.ret = C.ret, !.streams_before = streams]
    /\ UNCHANGED streams
    /\ UNCHANGED mvars

\* the words and length arguments of the queries
QueryWords == {<<Ch.A, Ch.B, Ch.C, Ch.D>>, <<Ch.A, Ch.B, Ch.X>>, <<Ch.A>>}
QueryLengths == {0, 2}

\* dict_datrie_match_longest on a loaded handle
QueryLongest ==
    /\ abnormal = "none"
    /\ \E h \in LiveHandles, w \in QueryWords, len \in QueryLengths :
          call' = [NoCall EXCEPT !.fn = "longest", !.h = h,
                     !.path = handles[h].path, !.word = w, !.length = len,
                     !.ptr = dict_datrie_match_longest(
                                 ViewTable(handles[h], regions), w, len)]
    /\ handles' = KeptHandles
    /\ regions' = KeptRegions
    /\ UNCHANGED <<streams, abnormal>>
    /\ UNCHANGED mvars

\* dict_datrie_get_all_match_lengths on a loaded handle
QueryAll ==
    /\ abnormal = "none"
    /\ \E h \in LiveHandles, w \in QueryWords :
          LET out == dict_datrie_get_all_match_lengths(
                         ViewTable(handles[h], regions), w)
          IN  call' = [NoCall EXCEPT !.fn = "all", !.h = h,
                         !.path = handles[h].path, !.word = w,
                         !.lengths = out, !.ret = Len(out)]
    /\ handles' = KeptHandles
    /\ regions' = KeptRegions
    /\ UNCHANGED <<streams, abnormal>>
    /\ UNCHANGED mvars

LInit ==
    /\ handles = [h \in HandleIds |-> NoHandle]
    /\ regions = [r \in RegionIds |-> NoRegion]
    /\ streams = 0
    /\ abnormal = "none"
    /\ call = NoCall

Init ==
    /\ LInit
    /\ tab = ExampleTable /\ word = <<>> /\ length = 0 /\ op = "longest"
    /\ pc = "idle"
    /\ i = 0 /\ p = 0 /\ limit = 0
    /\ pos = 0 /\ item = 0
    /\ calls = 0 /\ firstpos = 0
    /\ last = NoIter /\ zero = FALSE
    /\ rscnt = 0 /\ match_length = <<>>
    /\ ret = NULL

Next ==
    \/ Open
    \/ Close
    \/ QueryLongest
    \/ QueryAll

Spec == Init /\ [][Next]_vars

MInit ==
    /\ LInit
    /\ \/ tab \in Tables /\ word \in Words
       \/ tab \in {ExampleTable, DeepTable} /\ word \in ExampleWords
    /\ op \in {"longest", "all"}
    /\ length \in (IF op = "longest" THEN Limits ELSE {0})
    /\ pc = "start"
    /\ i = 0 /\ p = 0 /\ limit = 0
    /\ pos = 0 /\ item = 0
    /\ calls = 0 /\ firstpos = 0
    /\ last = NoIter /\ zero = FALSE
    /\ rscnt = 0 /\ match_length = <<>>
    /\ ret = NULL

SpecMatch == MInit /\ [][MNext]_vars

(***************************************************************************)
(* Reference definitions for the claims about the walks.                   *)
(***************************************************************************)
\* the node the first n characters of w lead to from the root over valid
\* transitions out of nodes with a used base; -1 when there is no such path
RECURSIVE RefNode(_, _, _)
RefNode(dd, w, n) ==
    IF n = 0 THEN 0
    ELSE LET q == RefNode(dd, w, n - 1)
         IN  IF q = -1 THEN -1
             ELSE IF dd.dat[q].base = DATRIE_UNUSED THEN -1
             ELSE LET j == dd.dat[q].base + w[n]
                  IN  IF /\ j \in 0..(dd.dat_item_count - 1)
                         /\ dd.dat[j].parent = q
                      THEN j
                      ELSE -1

SetMax(S) == CHOOSE x \in S : \A y \in S : y <= x

\* the characters the walk bounded by len (0: unbounded) consumes
RefWalkLen(dd, w, len) ==
    SetMax({n \in 0..Len(w) : (len = 0 \/ n <= len) /\ RefNode(dd, w, n) # -1})

\* the prefix lengths 1..n that end at a terminal node
RefTerminals(dd, w, n) ==
    {q \in 1..n : RefNode(dd, w, q) # -1 /\ dd.dat[RefNode(dd, w, q)].word # NO_ENTRY}

\* the table with another value in items[0].parent
WithRootParent(dd, v) == [dd EXCEPT !.dat[0].parent = v]
RootParentValues(dd) == (0 - 1)..(dd.dat_item_count - 1)

StrictlyIncreasing(s) == \A a, b \in DOMAIN s : a < b => s[a] < s[b]

(***************************************************************************)
(* Claims about the walks (SpecMatch).                                     *)
(***************************************************************************)
(* C1: in datrie_match and in dict_datrie_get_all_match_lengths, an        *)
(* iteration at node i with character code k advances to j = base[i] + k   *)
(* exactly when 0 <= j < item_count and items[j].parent = i; otherwise the *)
(* loop is left with i and p as they were.                                 *)
C1_TransitionFollowedIffValid ==
    last.any =>
        LET valid == /\ 0 <= last.j
                     /\ last.j < tab.dat_item_count
                     /\ tab.dat[last.j].parent = last.i
        IN  /\ last.j = tab.dat[last.i].base + CharAt(word, last.p)
            /\ (last.taken <=> valid)
            /\ (last.taken => (i = last.j /\ p = last.p + 1))
            /\ (~last.taken =>
                   /\ i = last.i /\ p = last.p
                   /\ IF op = "longest"
                      THEN pc \in {"ml", "done"} /\ pos = last.p /\ item = last.i
                      ELSE pc = "done")

\* an in-range candidate whose parent is another node was rejected after
\* a first transition was followed
C1_Witness_CollisionRejected ==
    /\ last.any /\ ~last.taken
    /\ last.p >= 1
    /\ 0 <= last.j /\ last.j < tab.dat_item_count
    /\ tab.dat[last.j].parent # last.i

(* C2: dict_datrie_match_longest returns the lexicon entry of the terminal *)
(* node reached over the longest prefix of q characters, 1 <= q <= n, n    *)
(* the characters the bounded walk consumes, and NULL exactly when no such *)
(* prefix ends at a terminal node; with the entries AB and ABC, ABCD       *)
(* yields ABC and ABX yields AB.                                           *)
C2_LongestTerminalPrefix ==
    (op = "longest" /\ pc = "done") =>
        LET n == RefWalkLen(tab, word, length)
            Q == RefTerminals(tab, word, n)
        IN  /\ (ret = NULL) <=> (Q = {})
            /\ Q # {} =>
                  /\ pos = SetMax(Q)
                  /\ item = RefNode(tab, word, SetMax(Q))
                  /\ ret = LexiconPtr(tab.dat[RefNode(tab, word, SetMax(Q))].word)
            /\ (tab = ExampleTable /\ length = 0 /\ word = <<Ch.A, Ch.B, Ch.C, Ch.D>>) =>
                  /\ ~ret.null
                  /\ LexiconEntry(ExampleLexicon, ret.off) = <<Ch.A, Ch.B, Ch.C>>
            /\ (tab = ExampleTable /\ length = 0 /\ word = <<Ch.A, Ch.B, Ch.X>>) =>
                  /\ ~ret.null
                  /\ LexiconEntry(ExampleLexicon, ret.off) = <<Ch.A, Ch.B>>

\* the walk went past a terminal node, and the backtracking loop came back
\* to it
C2_Witness_BacktrackedToEntry ==
    /\ op = "longest" /\ pc = "done"
    /\ calls >= 2
    /\ ~ret.null
    /\ pos < firstpos

(* C3: dict_datrie_get_all_match_lengths writes a strictly increasing      *)
(* sequence of lengths between 1 and the number of input characters, which *)
(* is exactly the set of the prefix lengths whose path of valid            *)
(* transitions from the root ends at a terminal node; the count returned   *)
(* is the number of lengths written and at most the input length.          *)
C3_AllMatchLengths ==
    op = "all" =>
        /\ StrictlyIncreasing(match_length)
        /\ \A k \in DOMAIN match_length :
              1 <= match_length[k] /\ match_length[k] <= Len(word)
        /\ rscnt = Len(match_length)
        /\ pc = "done" =>
              /\ {match_length[k] : k \in DOMAIN match_length}
                    = RefTerminals(tab, word, Len(word))
              /\ ret = Len(match_length)
              /\ ret <= Len(word)

\* two prefixes of the input are entries, and a third character was refused
C3_Witness_TwoLengths ==
    /\ op = "all" /\ pc = "done"
    /\ Len(match_length) >= 2
    /\ last.any /\ ~last.taken

\* the steps the call may still take: it decreases with every step
Variant ==
    LET L == Len(word)
    IN  CASE pc = "start" -> (L + 1) * (L + 3) + 1
          [] pc = "dm" -> ((IF calls = 1 THEN L ELSE limit) + 1) * (L + 3) - p
          [] pc = "ml" -> pos * (L + 3) + 1
          [] pc = "am" -> L + 1 - p
          [] OTHER -> 0

C8_Bounds ==
    op = "longest" =>
        /\ p <= Len(word)
        /\ Variant >= 0
        /\ pc # "done" => ENABLED MNext
        /\ (pc = "dm" /\ calls >= 2) => (limit >= 1 /\ limit = pos - 1)
        /\ (pc \in {"ml", "done"} /\ calls >= 2) =>
              (pos = limit /\ pos = firstpos - (calls - 1))
        /\ (pc \in {"ml", "done"} \/ calls >= 2) =>
              /\ firstpos <= Len(word)
              /\ calls <= (IF firstpos = 0 THEN 1 ELSE firstpos)

(* C8, as claimed: every retry consumes exactly pos - 1 characters, the    *)
(* limit passed in the loop is never 0, and the number of calls of the     *)
(* bounded step match is at most the number of characters the first walk   *)
(* consumed, which is at most the input length.                            *)
C8_Original_CallsAtMostFirstWalk ==
    (op = "longest" /\ pc \in {"ml", "done"}) =>
        /\ calls >= 2 => (pos = limit /\ limit >= 1)
        /\ firstpos <= Len(word)
        /\ calls <= firstpos

(* C8, amended: dict_datrie_match_longest always terminates (every step    *)
(* decreases a bounded measure and a step is possible until it returns);   *)
(* every retry with limit pos - 1 consumes exactly pos - 1 characters, so  *)
(* pos decreases by one per iteration; the limit passed in the loop is     *)
(* never 0; the number of calls of the bounded step match is at most the   *)
(* number of characters the first walk consumed when that is at least      *)
(* one, and is one when the first walk consumed none.                      *)
C8_TerminatesWithinFirstWalk ==
    /\ []C8_Bounds
    /\ [][op = "longest" => Variant' < Variant]_vars

\* three calls: the first walk consumed three characters and both retries
\* were needed
C8_Witness_ThreeCalls ==
    /\ op = "longest" /\ pc = "done"
    /\ calls = 3 /\ firstpos = 3 /\ pos = 1

\* what the calls return on table dd, against what this call computed
SameResultsOn(dd) ==
    /\ (op = "longest" /\ pc = "ml") =>
          datrie_match(dd, word, limit) = [pos |-> pos, id |-> item]
    /\ (op = "longest" /\ pc = "done") =>
          dict_datrie_match_longest(dd, word, length) = ret
    /\ (op = "all" /\ pc = "done") =>
          dict_datrie_get_all_match_lengths(dd, word) = match_length

(* C9, as claimed: for every table and input the results of the bounded    *)
(* step match, the longest match and all-match-lengths are the same        *)
(* whatever value items[0].parent holds.                                   *)
C9_Original_RootParentIrrelevant ==
    \A v \in RootParentValues(tab) : SameResultsOn(WithRootParent(tab, v))

(* C9, amended: the walk enters the root without any validity check, and   *)
(* reads items[0].parent only when a candidate index j is 0; for every     *)
(* table and every input whose walk computes no candidate index 0, the     *)
(* results of the bounded step match, the longest match and                *)
(* all-match-lengths are the same whatever value items[0].parent holds.    *)
C9_RootParentOnlyAsCandidate ==
    ~zero => \A v \in RootParentValues(tab) : SameResultsOn(WithRootParent(tab, v))

\* a walk of two transitions, none into node 0, that returned an entry
C9_Witness_NoCandidateZero ==
    /\ op = "longest" /\ pc = "done"
    /\ ~zero
    /\ firstpos >= 2
    /\ ~ret.null

(***************************************************************************)
(* Claims about the life cycle (Spec).                                     *)
(***************************************************************************)
HasHeader(cells) ==
    /\ Len(cells) >= Len(OPENCC_DICHEADER)
    /\ SubSeq(cells, 1, Len(OPENCC_DICHEADER)) = OPENCC_DICHEADER

ReleasedAsAcquired(rg) ==
    /\ ~rg.held
    /\ rg.releasedBy = (IF rg.kind = "mmap" THEN "munmap" ELSE "free")

HeldRegions == {r \in RegionIds : regions[r].held}

(* C4: when the file does not exist or cannot be opened, dict_datrie_open  *)
(* returns the failure indicator, produces no handle and reaches no        *)
(* abnormal state.                                                         *)
C4_MissingFileFails ==
    (call.fn = "open" /\ call.fp = "null") =>
        /\ abnormal = "none"
        /\ call.returned
        /\ call.ret = FAILURE
        /\ handles[call.h].alloc # "live"

(* C5: when the acquired region does not begin with the magic header,      *)
(* dict_datrie_open returns the failure indicator, and before it returns   *)
(* the region has been released by the method matching its acquisition and *)
(* the handle storage has been freed exactly once; no lexicon or trie view *)
(* is derived from the region.                                             *)
C5_HeaderMismatchReleases ==
    (/\ call.fn = "open"
     /\ call.region # 0
     /\ ~HasHeader(regions[call.region].cells)) =>
        /\ abnormal = "none"
        /\ call.returned
        /\ call.ret = FAILURE
        /\ handles[call.h].alloc = "freed"
        /\ handles[call.h].frees = 1
        /\ handles[call.h].dat = NullPointer
        /\ handles[call.h].lexicon = NullPointer
        /\ ReleasedAsAcquired(regions[call.region])
        /\ Cardinality(HeldRegions) = Cardinality(LiveHandles)

\* the file with the damaged header was loaded through the heap copy and
\* refused
C5_Witness_HeapCopyRefused ==
    /\ call.fn = "open"
    /\ call.path = "bad.ocd"
    /\ call.region # 0
    /\ regions[call.region].kind = "heap"
    /\ call.ret = FAILURE

(* C6: after dict_datrie_open succeeds and dict_datrie_close is called on  *)
(* the handle, nothing the open acquired is held: the stream is closed,    *)
(* the region is released by the method recorded at load time, the handle  *)
(* storage is freed exactly once and close returns 0, in every cycle.      *)
C6_OpenCloseReleasesAll ==
    /\ (call.fn = "open" /\ call.returned /\ call.ret # FAILURE) =>
          /\ handles[call.h].alloc = "live"
          /\ ~handles[call.h].fp_open
          /\ streams = call.streams_before
          /\ regions[call.region].held
    /\ call.fn = "close" =>
          /\ abnormal = "none"
          /\ call.ret = 0
          /\ handles[call.h].alloc = "freed"
          /\ handles[call.h].frees = 1
          /\ ~handles[call.h].fp_open
          /\ streams = call.streams_before
          /\ ReleasedAsAcquired(regions[call.region])
          /\ Cardinality(HeldRegions) = Cardinality(LiveHandles)

\* a handle loaded through the heap copy was closed, and nothing is held
C6_Witness_HeapHandleClosed ==
    /\ call.fn = "close"
    /\ regions[call.region].kind = "heap"
    /\ LiveHandles = {}
    /\ HeldRegions = {}
    /\ streams = 0

(* C7: for the same file, a load through the heap copy yields the same     *)
(* lexicon view, trie-item view and counts as a load through the mapping,  *)
(* so every longest-match and all-match-lengths query returns the same on  *)
(* the two handles.                                                        *)
C7_FallbackEquivalent ==
    \A h1, h2 \in LiveHandles :
        (/\ handles[h1].path = handles[h2].path
         /\ handles[h1].dic_memory_type = MEMORY_TYPE_MMAP
         /\ handles[h2].dic_memory_type = MEMORY_TYPE_ALLOCATE) =>
            LET t1 == ViewTable(handles[h1], regions)
                t2 == ViewTable(handles[h2], regions)
            IN  /\ handles[h1].lexicon_length = handles[h2].lexicon_length
                /\ handles[h1].dat_item_count = handles[h2].dat_item_count
                /\ ViewLexicon(handles[h1], regions) = ViewLexicon(handles[h2], regions)
                /\ t1 = t2
                /\ \A w \in ExampleWords :
                      /\ dict_datrie_get_all_match_lengths(t1, w)
                            = dict_datrie_get_all_match_lengths(t2, w)
                      /\ \A len \in QueryLengths :
                            dict_datrie_match_longest(t1, w, len)
                               = dict_datrie_match_longest(t2, w, len)

\* the same file is loaded twice, once mapped and once copied, and a query
\* on the copy found an entry
C7_Witness_BothStrategiesLoaded ==
    /\ \E h1, h2 \in LiveHandles :
          /\ handles[h1].path = handles[h2].path
          /\ handles[h1].dic_memory_type = MEMORY_TYPE_MMAP
          /\ handles[h2].dic_memory_type = MEMORY_TYPE_ALLOCATE
          /\ call.h = h2
    /\ call.fn = "longest"
    /\ ~call.ptr.null

(* C10: every call of dict_datrie_open that opens the file closes the      *)
(* stream before it returns, when the load succeeds and when it fails.     *)
C10_StreamClosedOnReturn ==
    (call.fn = "open" /\ call.fp = "stream" /\ call.returned) =>
        streams = call.streams_before
====
